---- MODULE Spec2Model ----
(***************************************************************************)
(* Broadcast campaign dispatch of the messaging-bot backend.               *)
(*                                                                         *)
(* TelegramBroadcastService (internal/services/cleanup_service.go) keeps   *)
(* one row per campaign in the database; every service method loads the    *)
(* row into a local struct, changes the struct and writes the whole struct *)
(* back with gorm's Save.  The methods are modelled at the granularity of  *)
(* their database reads and writes and of their gateway calls, run by      *)
(* concurrent callers (HTTP requests).  BroadcastService (SendBroadcast,    *)
(* UpdateBroadcast) follows the same load / change / Save pattern on its   *)
(* own table, with a send loop that always succeeds.                       *)
(*                                                                         *)
(* WhatsAppService.BroadcastMessage (same file) is modelled as a second    *)
(* state machine over its own variables, under the specification SpecWA.   *)
(***************************************************************************)
EXTENDS Integers, Sequences, FiniteSets, TLC

(* ---- bounds ---------------------------------------------------------- *)
MaxCampaigns == 1      \* campaign ids are 1..MaxCampaigns
MaxLen == 1            \* longest recipient list a caller passes
MaxClock == 3          \* requests served in a behaviour; the clock ticks once per request
MaxWaLen == 3          \* longest recipient list given to BroadcastMessage
MaxBatchLen == 120     \* longest recipient list of the batching runs
MaxInputLen == 3       \* longest argument of ValidateRecipients
MaxCopies == 1         \* campaigns made by DuplicateTelegramBroadcast
MaxMessageLen == 2     \* characters of the longest message previewed
MaxBroadcasts == 1     \* broadcasts created before the deleting operations
MaxRecords == 2        \* delivery records stored at one time
MaxElapses == 2        \* times that time is let pass
MaxItems == 12         \* items that Paginate is given
MaxLimit == 5          \* page size that Paginate is given
MaxPage == 14          \* page number that Paginate is given
rateLimit == 2         \* requests a RateLimiter admits per window
windowSize == 2        \* seconds of a RateLimiter's window
MaxSeconds == 3        \* seconds that pass while the RateLimiter is used
MaxRequests == 4       \* requests that reach the RateLimiter

(* ---- input domains --------------------------------------------------- *)
Procs == {1, 2}                       \* concurrent callers
CampaignIds == 1..MaxCampaigns
AllIds == 1..(MaxCampaigns + MaxCopies)   \* the ids of created and copied rows
ChatIds == {-1, 1}                    \* an invalid and a valid chat id
Contents == {"", "hello"}             \* message bodies, "" is the empty one

\* a []int64 argument: Go tells a nil slice from an empty one
NilSlice == [isNil |-> TRUE, elems |-> <<>>]
Slice(elems) == [isNil |-> FALSE, elems |-> elems]

RecipientLists == UNION {[1..n -> ChatIds] : n \in 0..MaxLen}

(* ---- the TelegramBroadcast row --------------------------------------- *)
\* time.Time values are readings of the clock; 0 is the nil *time.Time
\* every campaign is created with the same name
CampaignName == "campaign"
TelegramBroadcast(message, recipients, status) ==
    [Name |-> CampaignName, Message |-> message, Recipients |-> recipients,
     Status |-> status,
     SuccessCount |-> 0, FailureCount |-> 0, SentAt |-> 0, CompletedAt |-> 0]

\* var broadcast models.TelegramBroadcast
ZeroBroadcast == [TelegramBroadcast("", <<>>, "") EXCEPT !.Name = ""]

\* the frame of one call: its position, its local variables, and the status
\* its load found in the row
IdleCall ==
    [pc |-> "idle", id |-> 0, broadcast |-> ZeroBroadcast, loaded |-> "",
     i |-> 0, successCount |-> 0, recipients |-> <<>>]

\* what a call returned: the method, the campaign id it was given, the status
\* its load found ("" when no row was found), the outcome, and the recipient
\* list the call was given (Import) or returned (Export)
Returned(op, id, status, result) ==
    [op |-> op, id |-> id, status |-> status, result |-> result, recipients |-> <<>>]

\* the return of a method whose first result is a recipient list
ReturnedList(op, id, status, recipients) ==
    [Returned(op, id, status, "ok") EXCEPT !.recipients = recipients]

VARIABLES
    db,         \* the telegram_broadcasts table: campaign id -> row
    nextId,     \* the next uuid.New()
    clock,      \* time.Now(), advanced by the arrival of each request
    calls,      \* the frame of each caller
    ret,        \* the most recent return of a service method
    gateway,    \* campaign id -> number of telegramService.SendMessage calls
    cancelOk,   \* campaign id -> a CancelTelegramBroadcast returned nil
    wa,         \* BroadcastMessage: its position and its Broadcast struct
    waRow,      \* the broadcasts row as stored
    waRecords,  \* the broadcast_recipients rows, in creation order
    waLost,     \* a BroadcastRecipient write failed during the run
    waGateway,  \* the recipients passed to s.SendMessage, in call order
    waBatches,  \* the batches handed to processBroadcastBatch, in order
    waOutcomes, \* what the collaborators answered for each recipient processed
    vr,         \* one call of ValidateRecipients: argument and results
    preview,    \* the last return of PreviewTelegramBroadcast
    today,          \* time.Now() of the deleting operations, in days
    elapsed,        \* how many times time has been let pass
    broadcastRows,  \* the broadcasts table: id -> created_at, deleted rows left out
    recipientRows,  \* the broadcast_recipients table, deleted rows left out
    running,        \* the broadcasts whose BroadcastMessage has not returned
    deleted,        \* the ids of the broadcasts deleted so far
    cleanup,        \* the position of CleanupOldBroadcasts and its cutoffDate
    pg,             \* one call of utils.Paginate: arguments and result
    rl,             \* the rate limiter: its redis key, the time, its callers
    request         \* per caller, the arguments of its Update and the row it read

waVars == <<wa, waRow, waRecords, waLost, waGateway, waBatches, waOutcomes>>
delVars == <<today, elapsed, broadcastRows, recipientRows, running, deleted, cleanup>>
fnVars == <<vr, preview, delVars, pg, rl, request>>
vars == <<db, nextId, clock, calls, ret, gateway, cancelOk,
          wa, waRow, waRecords, waLost, waGateway, waBatches, waOutcomes, vr, preview,
          today, elapsed, broadcastRows, recipientRows, running, deleted, cleanup, pg, rl,
          request>>

Exists(id) == id \in DOMAIN db

\* db.Save(&broadcast): writes every column of the struct (insert when absent)
Save(id, broadcast) ==
    IF Exists(id) THEN [db EXCEPT ![id] = broadcast] ELSE db @@ (id :> broadcast)

\* a request is served by the first free worker
Free(p) == calls[p].pc = "idle" /\ \A q \in Procs : q < p => calls[q].pc # "idle"

\* the load every method starts with: db.Where("id = ?", id).First(&broadcast)
Load(p, id, pc) ==
    [calls EXCEPT ![p] = [IdleCall EXCEPT !.pc = pc, !.id = id, !.broadcast = db[id],
                                          !.loaded = db[id].Status]]

(* ---- pure helpers ---------------------------------------------------- *)
RECURSIVE ValidRecipientsNonNegative(_)
\* a validation that takes 0 for a valid id
ValidRecipientsNonNegative(recipients) ==
    IF recipients = <<>> THEN <<>>
    ELSE IF Head(recipients) < 0
         THEN ValidRecipientsNonNegative(Tail(recipients))
         ELSE <<Head(recipients)>> \o ValidRecipientsNonNegative(Tail(recipients))

\* an import that stores the list as given
ValidRecipientsKeepAll(recipients) == recipients

RECURSIVE ValidRecipients(_)
\* ValidateRecipients, first result: the recipients > 0, in order
ValidRecipients(recipients) ==
    IF recipients = <<>> THEN <<>>
    ELSE IF Head(recipients) <= 0
         THEN ValidRecipients(Tail(recipients))
         ELSE <<Head(recipients)>> \o ValidRecipients(Tail(recipients))

\* fmt.Sprintf("Invalid recipient ID: %d", recipient)
InvalidRecipient(recipient) == [text |-> "Invalid recipient ID", id |-> recipient]

RECURSIVE RecipientErrors(_)
\* ValidateRecipients, second result: one string per recipient <= 0, in order
RecipientErrors(recipients) ==
    IF recipients = <<>> THEN <<>>
    ELSE IF Head(recipients) <= 0
         THEN <<InvalidRecipient(Head(recipients))>> \o RecipientErrors(Tail(recipients))
         ELSE RecipientErrors(Tail(recipients))

\* the guard written to refuse only finished campaigns
CanCancelUnlessCompleted(status) == status # "completed"

\* CancelTelegramBroadcast's guard: `if broadcast.Status != "pending"` refuses
CanCancel(status) == status = "pending"

\* an update that takes every argument as given, empty or not
UpdateFieldsAsGiven(broadcast, name, message, recipients) ==
    [broadcast EXCEPT !.Name = name, !.Message = message,
                      !.Recipients = recipients.elems]

\* UpdateTelegramBroadcast's field updates on the loaded struct
UpdateFields(broadcast, name, message, recipients) ==
    [broadcast EXCEPT
        !.Name = IF name # "" THEN name ELSE @,
        !.Message = IF message # "" THEN message ELSE @,
        !.Recipients = IF ~recipients.isNil THEN recipients.elems ELSE @]

\* the struct SendTelegramBroadcast writes first
Sending(broadcast, now) == [broadcast EXCEPT !.Status = "sending", !.SentAt = now]

\* the struct SendTelegramBroadcast writes last
Completed(broadcast, successCount, now) ==
    [broadcast EXCEPT !.Status = "completed",
                      !.SuccessCount = successCount,
                      !.FailureCount = Len(broadcast.Recipients) - successCount,
                      !.CompletedAt = now]

\* the struct CancelTelegramBroadcast writes
Cancelled(broadcast) == [broadcast EXCEPT !.Status = "cancelled"]

(* ---- CreateTelegramBroadcast ------------------------------------------ *)
CreateTelegramBroadcast(message, recipients) ==
    /\ nextId <= MaxCampaigns
    /\ clock < MaxClock
    /\ db' = Save(nextId, TelegramBroadcast(message, recipients, "pending"))
    /\ nextId' = nextId + 1
    /\ clock' = clock + 1
    /\ ret' = Returned("create", nextId, "", "ok")
    /\ UNCHANGED <<calls, gateway, cancelOk>>

(* ---- SendTelegramBroadcast -------------------------------------------- *)
SendLoad(p, id) ==
    /\ Free(p)
    /\ clock < MaxClock
    /\ IF Exists(id)
       THEN calls' = Load(p, id, "setSending") /\ ret' = ret
       ELSE calls' = calls /\ ret' = Returned("send", id, "", "notfound")
    /\ clock' = clock + 1
    /\ UNCHANGED <<db, nextId, gateway, cancelOk>>

\* broadcast.Status = "sending"; broadcast.SentAt = time.Now(); db.Save(&broadcast)
SendSetSending(p, saved) ==
    /\ calls[p].pc = "setSending"
    /\ LET c == calls[p]
           broadcast == Sending(c.broadcast, clock)
       IN IF saved
          THEN /\ db' = Save(c.id, broadcast)
               /\ calls' = [calls EXCEPT ![p].broadcast = broadcast, ![p].pc = "loop",
                                         ![p].i = 1, ![p].successCount = 0]
               /\ ret' = ret
          ELSE /\ db' = db
               /\ calls' = [calls EXCEPT ![p] = IdleCall]
               /\ ret' = Returned("send", c.id, c.loaded, "dberr")
    /\ UNCHANGED <<nextId, clock, gateway, cancelOk>>

\* a loop that never moves on to the next recipient
SendLoopStuck(p, delivered) ==
    /\ calls[p].pc = "loop"
    /\ calls[p].i <= Len(calls[p].broadcast.Recipients)
    /\ UNCHANGED <<db, nextId, clock, calls, ret, gateway, cancelOk>>

\* one iteration of `for _, recipient := range broadcast.Recipients`
SendLoop(p, delivered) ==
    /\ calls[p].pc = "loop"
    /\ calls[p].i <= Len(calls[p].broadcast.Recipients)
    /\ gateway' = [gateway EXCEPT ![calls[p].id] = @ + 1]
    /\ calls' = [calls EXCEPT ![p].i = @ + 1,
                              ![p].successCount = IF delivered THEN @ + 1 ELSE @]
    /\ UNCHANGED <<db, nextId, clock, ret, cancelOk>>

\* a dispatcher that reports the failed recipients as an error of the call
SendResultReportsFailures(broadcast, saved) ==
    IF ~saved THEN "dberr" ELSE IF broadcast.FailureCount > 0 THEN "senderr" ELSE "ok"

\* what SendTelegramBroadcast returns after the last Save of broadcast:
\* the Save's error, or nil
SendResult(broadcast, saved) == IF saved THEN "ok" ELSE "dberr"

\* "Update broadcast with results" and the final db.Save(&broadcast)
SendComplete(p, saved) ==
    /\ calls[p].pc = "loop"
    /\ calls[p].i > Len(calls[p].broadcast.Recipients)
    /\ LET c == calls[p]
           broadcast == Completed(c.broadcast, c.successCount, clock)
       IN /\ db' = IF saved THEN Save(c.id, broadcast) ELSE db
          /\ ret' = Returned("send", c.id, c.loaded, SendResult(broadcast, saved))
    /\ calls' = [calls EXCEPT ![p] = IdleCall]
    /\ UNCHANGED <<nextId, clock, gateway, cancelOk>>

(* ---- CancelTelegramBroadcast ------------------------------------------ *)
\* the load and the status check
CancelLoad(p, id) ==
    /\ Free(p)
    /\ clock < MaxClock
    /\ IF ~Exists(id)
       THEN calls' = calls /\ ret' = Returned("cancel", id, "", "notfound")
       ELSE IF ~CanCancel(db[id].Status)
       THEN calls' = calls /\ ret' = Returned("cancel", id, db[id].Status, "conflict")
       ELSE calls' = Load(p, id, "cancelSave") /\ ret' = ret
    /\ clock' = clock + 1
    /\ UNCHANGED <<db, nextId, gateway, cancelOk>>

\* broadcast.Status = "cancelled"; db.Save(&broadcast)
CancelSave(p, saved) ==
    /\ calls[p].pc = "cancelSave"
    /\ LET c == calls[p]
       IN /\ db' = IF saved THEN Save(c.id, Cancelled(c.broadcast)) ELSE db
          /\ cancelOk' = IF saved THEN [cancelOk EXCEPT ![c.id] = TRUE] ELSE cancelOk
          /\ ret' = Returned("cancel", c.id, c.loaded,
                             IF saved THEN "ok" ELSE "dberr")
    /\ calls' = [calls EXCEPT ![p] = IdleCall]
    /\ UNCHANGED <<nextId, clock, gateway>>

(* ---- UpdateTelegramBroadcast ------------------------------------------ *)
\* the arguments of a caller's latest Update
Request(name, message, recipients) ==
    [name |-> name, message |-> message, recipients |-> recipients]
NoRequests == [p \in Procs |-> Request("", "", NilSlice)]

UpdateLoad(p, id, name, message, recipients) ==
    /\ Free(p)
    /\ clock < MaxClock
    /\ IF ~Exists(id)
       THEN calls' = calls /\ ret' = Returned("update", id, "", "notfound")
       ELSE /\ calls' = [Load(p, id, "updateSave") EXCEPT
                            ![p].broadcast = UpdateFields(@, name, message, recipients)]
            /\ ret' = ret
    /\ clock' = clock + 1
    /\ UNCHANGED <<db, nextId, gateway, cancelOk>>

UpdateSave(p, saved) ==
    /\ calls[p].pc = "updateSave"
    /\ LET c == calls[p]
       IN /\ db' = IF saved THEN Save(c.id, c.broadcast) ELSE db
          /\ ret' = Returned("update", c.id, c.loaded,
                             IF saved THEN "ok" ELSE "dberr")
    /\ calls' = [calls EXCEPT ![p] = IdleCall]
    /\ UNCHANGED <<nextId, clock, gateway, cancelOk>>

(* ---- ImportTelegramBroadcastRecipients -------------------------------- *)
ImportLoad(p, id, recipients) ==
    /\ Free(p)
    /\ clock < MaxClock
    /\ IF ~Exists(id)
       THEN calls' = calls /\ ret' = Returned("import", id, "", "notfound")
       ELSE /\ calls' = [Load(p, id, "importSave") EXCEPT
                            ![p].recipients = recipients,
                            ![p].broadcast.Recipients = ValidRecipients(recipients)]
            /\ ret' = ret
    /\ clock' = clock + 1
    /\ UNCHANGED <<db, nextId, gateway, cancelOk>>

ImportSave(p, saved) ==
    /\ calls[p].pc = "importSave"
    /\ LET c == calls[p]
       IN /\ db' = IF saved THEN Save(c.id, c.broadcast) ELSE db
          /\ ret' = [Returned("import", c.id, c.loaded,
                              IF saved THEN "ok" ELSE "dberr")
                        EXCEPT !.recipients = c.recipients]
    /\ calls' = [calls EXCEPT ![p] = IdleCall]
    /\ UNCHANGED <<nextId, clock, gateway, cancelOk>>

(* ---- ExportTelegramBroadcastRecipients -------------------------------- *)
\* an export that answers an unknown id with an empty list
ExportOfAnyId(id) ==
    /\ clock < MaxClock
    /\ ret' = IF Exists(id)
              THEN ReturnedList("export", id, db[id].Status, db[id].Recipients)
              ELSE ReturnedList("export", id, "", <<>>)
    /\ clock' = clock + 1
    /\ UNCHANGED <<db, nextId, calls, gateway, cancelOk>>

\* the load, and `return broadcast.Recipients, nil`
ExportTelegramBroadcastRecipients(id) ==
    /\ clock < MaxClock
    /\ ret' = IF Exists(id)
              THEN ReturnedList("export", id, db[id].Status, db[id].Recipients)
              ELSE Returned("export", id, "", "notfound")
    /\ clock' = clock + 1
    /\ UNCHANGED <<db, nextId, calls, gateway, cancelOk>>

(* ---- DuplicateTelegramBroadcast --------------------------------------- *)
\* a copy that takes the whole original row and only resets the status
DuplicatedKeepsCounters(original) == [original EXCEPT !.Status = "pending"]

\* newBroadcast: Message and Recipients of the original, Status "pending"
Duplicated(original) ==
    [TelegramBroadcast(original.Message, original.Recipients, "pending")
        EXCEPT !.Name = original.Name \o " (Copy)"]

\* the load of the original
DuplicateLoad(p, id) ==
    /\ Free(p)
    /\ clock < MaxClock
    /\ nextId <= MaxCampaigns + MaxCopies
    /\ IF Exists(id)
       THEN calls' = Load(p, id, "duplicateCreate") /\ ret' = ret
       ELSE calls' = calls /\ ret' = Returned("duplicate", id, "", "notfound")
    /\ clock' = clock + 1
    /\ UNCHANGED <<db, nextId, gateway, cancelOk>>

\* ID: uuid.New() and db.Create(newBroadcast); the new row is returned
DuplicateCreate(p, created) ==
    /\ calls[p].pc = "duplicateCreate"
    /\ nextId <= MaxCampaigns + MaxCopies
    /\ LET c == calls[p]
       IN /\ db' = IF created THEN Save(nextId, Duplicated(c.broadcast)) ELSE db
          /\ ret' = Returned("duplicate", nextId, c.loaded,
                             IF created THEN "ok" ELSE "dberr")
    /\ nextId' = nextId + 1
    /\ calls' = [calls EXCEPT ![p] = IdleCall]
    /\ UNCHANGED <<clock, gateway, cancelOk>>

(* ---- WhatsAppService.BroadcastMessage --------------------------------- *)
batchSize == 50

\* models.Broadcast, the columns the run writes
Broadcast(status) == [Status |-> status, TotalSent |-> 0, TotalFailed |-> 0]

\* models.BroadcastRecipient; Error is "" or the text of the error recorded
BroadcastRecipient(recipient, status, error) ==
    [recipient |-> recipient, Status |-> status, Error |-> error]

\* err.Error() of a failed FindOrCreateContact and of a failed SendMessage
ResolveError == "contact"
SendError == "send"

WaIdle ==
    [pc |-> "idle", recipients |-> <<>>, i |-> 0, end |-> 0, j |-> 0,
     broadcast |-> Broadcast(""), result |-> "none"]

\* no broadcasts row yet
NoRow == Broadcast("none")

Min(a, b) == IF a < b THEN a ELSE b

\* the struct is built with Status "sending" and inserted
BroadcastMessage(n, created) ==
    /\ wa.pc = "idle"
    /\ IF created
       THEN /\ wa' = [wa EXCEPT !.pc = "batches", !.recipients = [k \in 1..n |-> k],
                                !.i = 0, !.broadcast = Broadcast("sending")]
            /\ waRow' = Broadcast("sending")
       ELSE /\ wa' = [wa EXCEPT !.pc = "done", !.result = "dberr"]
            /\ waRow' = waRow
    /\ UNCHANGED <<waRecords, waLost, waGateway, waBatches, waOutcomes>>

\* a batch end that stops one recipient short of the batch size
BatchEndShort(i, n) == Min(i + batchSize - 1, n)

\* `end := i + batchSize`, clamped to len(recipients)
BatchEnd(i, n) == Min(i + batchSize, n)

\* `for i := 0; i < len(recipients); i += batchSize`: batch := recipients[i:end]
WaNextBatch ==
    /\ wa.pc = "batches"
    /\ wa.i < Len(wa.recipients)
    /\ LET end == BatchEnd(wa.i, Len(wa.recipients))
       IN /\ wa' = [wa EXCEPT !.pc = "batch", !.j = wa.i, !.end = end]
          /\ waBatches' = Append(waBatches, SubSeq(wa.recipients, wa.i + 1, end))
    /\ UNCHANGED <<waRow, waRecords, waLost, waGateway, waOutcomes>>

\* a dispatcher that leaves the record pending when the gateway errors
RecipientOutcomeLeavesPending(recipient, resolved, delivered) ==
    IF ~resolved THEN BroadcastRecipient(recipient, "failed", ResolveError)
    ELSE IF ~delivered THEN BroadcastRecipient(recipient, "pending", "")
    ELSE BroadcastRecipient(recipient, "sent", "")

\* a dispatcher that drops the error text of a failed resolution
RecipientOutcomeNoErrorText(recipient, resolved, delivered) ==
    IF ~resolved THEN BroadcastRecipient(recipient, "failed", "")
    ELSE IF ~delivered THEN BroadcastRecipient(recipient, "failed", SendError)
    ELSE BroadcastRecipient(recipient, "sent", "")

\* the record processBroadcastBatch builds for one recipient
RecipientOutcome(recipient, resolved, delivered) ==
    IF ~resolved THEN BroadcastRecipient(recipient, "failed", ResolveError)
    ELSE IF ~delivered THEN BroadcastRecipient(recipient, "failed", SendError)
    ELSE BroadcastRecipient(recipient, "sent", "")

\* the counters of the struct after one recipient
Counted(broadcast, resolved, delivered) ==
    IF ~resolved THEN broadcast
    ELSE IF delivered THEN [broadcast EXCEPT !.TotalSent = @ + 1]
    ELSE [broadcast EXCEPT !.TotalFailed = @ + 1]

\* one iteration of processBroadcastBatch: FindOrCreateContact, SendMessage,
\* DB.Create(recipientModel), whose error is not looked at
WaProcessRecipient(resolved, delivered, stored) ==
    /\ wa.pc = "batch"
    /\ wa.j < wa.end
    /\ LET recipient == wa.recipients[wa.j + 1]
       IN /\ wa' = [wa EXCEPT !.j = @ + 1,
                              !.broadcast = Counted(@, resolved, delivered)]
          /\ waRecords' = IF stored
                          THEN Append(waRecords,
                                      RecipientOutcome(recipient, resolved, delivered))
                          ELSE waRecords
          /\ waLost' = (waLost \/ ~stored)
          /\ waGateway' = IF resolved THEN Append(waGateway, recipient) ELSE waGateway
          /\ waOutcomes' = Append(waOutcomes,
                [recipient |-> recipient, resolved |-> resolved,
                 delivered |-> resolved /\ delivered, stored |-> stored])
    /\ UNCHANGED <<waRow, waBatches>>

\* processBroadcastBatch returns nil; the caller goes on to the next batch
WaBatchDone ==
    /\ wa.pc = "batch"
    /\ wa.j >= wa.end
    /\ wa' = [wa EXCEPT !.pc = "batches", !.i = @ + batchSize]
    /\ UNCHANGED <<waRow, waRecords, waLost, waGateway, waBatches, waOutcomes>>

\* broadcast.Status = "sent"; return DB.Save(broadcast).Error
WaFinish(saved) ==
    /\ wa.pc = "batches"
    /\ wa.i >= Len(wa.recipients)
    /\ LET broadcast == [wa.broadcast EXCEPT !.Status = "sent"]
       IN /\ wa' = [wa EXCEPT !.pc = "done", !.broadcast = broadcast,
                              !.result = IF saved THEN "ok" ELSE "dberr"]
          /\ waRow' = IF saved THEN broadcast ELSE waRow
    /\ UNCHANGED <<waRecords, waLost, waGateway, waBatches, waOutcomes>>

(* ---- ValidateRecipients as a call ---------------------------------------- *)
\* the ids a caller may pass, valid and invalid
RecipientIds == {-1, 0, 1, 2}
ValidateInputs == UNION {[1..n -> RecipientIds] : n \in 0..MaxInputLen}

VrIdle == [pc |-> "idle", recipients |-> <<>>, validRecipients |-> <<>>, errors |-> <<>>]
VrCall(recipients) == [VrIdle EXCEPT !.pc = "call", !.recipients = recipients]

\* ValidateRecipients(recipients) returns validRecipients, errors
ValidateRecipients ==
    /\ vr.pc = "call"
    /\ vr' = [vr EXCEPT !.pc = "returned",
                        !.validRecipients = ValidRecipients(vr.recipients),
                        !.errors = RecipientErrors(vr.recipients)]

(* ---- PreviewTelegramBroadcast ------------------------------------------- *)
\* time.Second in ticks of the clock
Second == 1

\* a message is a Go string: its characters, each as its number of UTF-8 bytes
PreviewMessages == UNION {[1..n -> {1, 3}] : n \in 0..MaxMessageLen}

RECURSIVE RuneCount(_)
\* a length that counts characters
RuneCount(message) == IF message = <<>> THEN 0 ELSE 1 + RuneCount(Tail(message))

RECURSIVE ByteLen(_)
\* len(message): the number of bytes of the string
ByteLen(message) == IF message = <<>> THEN 0 ELSE Head(message) + ByteLen(Tail(message))

\* an estimate that leaves out the per-recipient cost
EstimatedDeliveryNow(now, recipients) == now

\* time.Now().Add(time.Duration(len(recipients)) * time.Second)
EstimatedDelivery(now, recipients) == now + Len(recipients) * Second

NoPreview ==
    [called |-> FALSE, message |-> <<>>, recipients |-> <<>>, now |-> 0,
     recipient_count |-> 0, message_length |-> 0, estimated_delivery |-> 0]

\* the preview map, with the arguments and the reading of the clock kept
PreviewTelegramBroadcast(message, recipients) ==
    /\ clock < MaxClock
    /\ clock' = clock + 1
    /\ preview' = [called |-> TRUE, message |-> message, recipients |-> recipients,
                   now |-> clock',
                   recipient_count |-> Len(recipients),
                   message_length |-> ByteLen(message),
                   estimated_delivery |-> EstimatedDelivery(clock', recipients)]
    /\ UNCHANGED <<db, nextId, calls, ret, gateway, cancelOk, waVars, vr, delVars, pg, rl,
                   request>>

(* ---- DeleteBroadcast and CleanupOldBroadcasts --------------------------- *)
\* time.Now().AddDate(0, 0, -30)
Retention == 30

BroadcastIds == 1..MaxBroadcasts

CleanupIdle == [pc |-> "idle", cutoffDate |-> 0]

\* the rows a `created_at < cutoffDate` Delete leaves
Kept(rows, cutoffDate) == {r \in rows : ~(r.CreatedAt < cutoffDate)}

\* BroadcastMessage inserts the broadcast row
BroadcastCreated ==
    LET id == Cardinality(DOMAIN broadcastRows \cup deleted) + 1
    IN /\ id \in BroadcastIds
       /\ broadcastRows' = broadcastRows @@ (id :> today)
       /\ running' = running \cup {id}
       /\ UNCHANGED <<today, elapsed, recipientRows, deleted, cleanup>>

\* processBroadcastBatch inserts the record of one recipient
RecipientCreated(id) ==
    /\ id \in running
    /\ Cardinality(recipientRows) < MaxRecords
    /\ recipientRows' = recipientRows \cup {[BroadcastID |-> id, CreatedAt |-> today]}
    /\ UNCHANGED <<today, elapsed, broadcastRows, running, deleted, cleanup>>

\* BroadcastMessage returns
BroadcastReturned(id) ==
    /\ id \in running
    /\ running' = running \ {id}
    /\ UNCHANGED <<today, elapsed, broadcastRows, recipientRows, deleted, cleanup>>

\* a day or a retention period passes
Elapse(days) ==
    /\ elapsed < MaxElapses
    /\ elapsed' = elapsed + 1
    /\ today' = today + days
    /\ UNCHANGED <<broadcastRows, recipientRows, running, deleted, cleanup>>

\* BroadcastService.DeleteBroadcast: Where("id = ?", broadcastID).Delete(&models.Broadcast{})
DeleteBroadcast(id, ok) ==
    /\ IF ok /\ id \in DOMAIN broadcastRows
       THEN /\ broadcastRows' = [b \in DOMAIN broadcastRows \ {id} |-> broadcastRows[b]]
            /\ deleted' = deleted \cup {id}
       ELSE UNCHANGED <<broadcastRows, deleted>>
    /\ UNCHANGED <<today, elapsed, recipientRows, running, cleanup>>

\* CleanupOldBroadcasts, "Delete old broadcast recipients"
CleanupRecipients(ok) ==
    /\ cleanup.pc = "idle"
    /\ LET cutoffDate == today - Retention
       IN IF ok
          THEN /\ recipientRows' = Kept(recipientRows, cutoffDate)
               /\ cleanup' = [pc |-> "broadcasts", cutoffDate |-> cutoffDate]
          ELSE UNCHANGED <<recipientRows, cleanup>>
    /\ UNCHANGED <<today, elapsed, broadcastRows, running, deleted>>

\* CleanupOldBroadcasts, "Delete old broadcasts"
CleanupBroadcasts(ok) ==
    /\ cleanup.pc = "broadcasts"
    /\ LET old == {b \in DOMAIN broadcastRows : broadcastRows[b] < cleanup.cutoffDate}
       IN IF ok
          THEN /\ broadcastRows' = [b \in DOMAIN broadcastRows \ old |-> broadcastRows[b]]
               /\ deleted' = deleted \cup old
          ELSE UNCHANGED <<broadcastRows, deleted>>
    /\ cleanup' = CleanupIdle
    /\ UNCHANGED <<today, elapsed, recipientRows, running>>

(* ---- utils.Paginate ------------------------------------------------------ *)
\* a / b of Go for b > 0: the quotient truncated toward zero
Quot(a, b) == IF a >= 0 THEN a \div b ELSE -((-a) \div b)

\* a page count that leaves out the last, partly filled page
TotalPagesFloor(totalItems, limit) == Quot(totalItems, limit)

\* totalPages := (totalItems + limit - 1) / limit
TotalPages(totalItems, limit) == Quot(totalItems + limit - 1, limit)

\* offset := (page - 1) * limit
Offset(page, limit) == (page - 1) * limit

\* the page after the two clamps
Clamped(page, totalPages) ==
    LET atLeastOne == IF page < 1 THEN 1 ELSE page
    IN IF atLeastOne > totalPages THEN totalPages ELSE atLeastOne

\* the map Paginate returns
Paginated(totalItems, page, limit) ==
    LET totalPages == TotalPages(totalItems, limit)
        clamped == Clamped(page, totalPages)
    IN [page |-> clamped, limit |-> limit, offset |-> Offset(clamped, limit),
        total_items |-> totalItems, total_pages |-> totalPages,
        has_next |-> clamped < totalPages, has_prev |-> clamped > 1]

PgIdle == [pc |-> "idle", totalItems |-> 0, page |-> 0, limit |-> 1,
           result |-> Paginated(0, 0, 1)]
PgCall(totalItems, page, limit) ==
    [PgIdle EXCEPT !.pc = "call", !.totalItems = totalItems, !.page = page, !.limit = limit]

\* Paginate(totalItems, page, limit) returns
Paginate ==
    /\ pg.pc = "call"
    /\ pg' = [pg EXCEPT !.pc = "returned",
                        !.result = Paginated(pg.totalItems, pg.page, pg.limit)]

(* ---- middleware.RateLimiter ---------------------------------------------- *)
\* The sorted set of one key: its members are now.Unix() values, each scored
\* by itself, so the set holds at most one member per second.
NoExpiry == -1
RlIdle == [pc |-> "idle", now |-> 0]
RlReturned(allowed, err, now) == [allowed |-> allowed, err |-> err, now |-> now]

InitRate ==
    rl = [now |-> 0, zset |-> {}, expireAt |-> NoExpiry,
          calls |-> [p \in Procs |-> RlIdle], started |-> 0,
          admitted |-> [s \in 0..MaxSeconds |-> 0],
          ret |-> RlReturned(FALSE, FALSE, 0)]

RlFree(p) ==
    rl.calls[p].pc = "idle" /\ \A q \in Procs : q < p => rl.calls[q].pc # "idle"

\* return false, err
RlFails(p) ==
    rl' = [rl EXCEPT !.calls[p] = RlIdle,
                     !.ret = RlReturned(FALSE, TRUE, rl.calls[p].now)]

\* ZCount(key, windowStart.Unix(), now.Unix())
ZCount(windowStart, now) ==
    Cardinality({m \in rl.zset : m >= windowStart /\ m <= now})

\* now := time.Now(); windowStart := now.Add(-rl.windowSize)
RlBegin(p) ==
    /\ RlFree(p)
    /\ rl.started < MaxRequests
    /\ rl' = [rl EXCEPT !.calls[p] = [pc |-> "zcount", now |-> rl.now],
                        !.started = @ + 1]

\* count, err := ZCount(...); if count >= rateLimit { return false, nil }
RlZCount(p, ok) ==
    /\ rl.calls[p].pc = "zcount"
    /\ IF ~ok THEN RlFails(p)
       ELSE IF ZCount(rl.calls[p].now - windowSize, rl.calls[p].now) >= rateLimit
       THEN rl' = [rl EXCEPT !.calls[p] = RlIdle,
                             !.ret = RlReturned(FALSE, FALSE, rl.calls[p].now)]
       ELSE rl' = [rl EXCEPT !.calls[p].pc = "zadd"]

\* ZAdd(key, Z{Score: now.Unix(), Member: now.Unix()})
RlZAdd(p, ok) ==
    /\ rl.calls[p].pc = "zadd"
    /\ IF ~ok THEN RlFails(p)
       ELSE rl' = [rl EXCEPT !.zset = @ \cup {rl.calls[p].now},
                             !.calls[p].pc = "zrem"]

\* ZRemRangeByScore(key, "-inf", windowStart.Unix()); a set left empty is no key
RlZRemRangeByScore(p, ok) ==
    /\ rl.calls[p].pc = "zrem"
    /\ IF ~ok THEN RlFails(p)
       ELSE LET kept == {m \in rl.zset : m > rl.calls[p].now - windowSize}
            IN rl' = [rl EXCEPT !.zset = kept,
                                !.expireAt = IF kept = {} THEN NoExpiry ELSE @,
                                !.calls[p].pc = "expire"]

\* Expire(key, windowSize); return true, nil
RlExpire(p, ok) ==
    /\ rl.calls[p].pc = "expire"
    /\ IF ~ok THEN RlFails(p)
       ELSE rl' = [rl EXCEPT !.expireAt = IF rl.zset = {} THEN NoExpiry
                                          ELSE rl.now + windowSize,
                             !.admitted[rl.calls[p].now] = @ + 1,
                             !.calls[p] = RlIdle,
                             !.ret = RlReturned(TRUE, FALSE, rl.calls[p].now)]

\* a second passes; redis drops the key whose time to live has run out
RlTick ==
    /\ rl.now < MaxSeconds
    /\ LET expired == rl.expireAt # NoExpiry /\ rl.now + 1 >= rl.expireAt
       IN rl' = [rl EXCEPT !.now = @ + 1,
                           !.zset = IF expired THEN {} ELSE @,
                           !.expireAt = IF expired THEN NoExpiry ELSE @]

(* ---- the specifications ------------------------------------------------ *)
tgVars == <<db, nextId, clock, calls, ret, gateway, cancelOk>>

InitServices ==
    /\ db = <<>>
    /\ nextId = 1
    /\ clock = 0
    /\ calls = [p \in Procs |-> IdleCall]
    /\ ret = Returned("none", 0, "", "none")
    /\ gateway = [id \in AllIds |-> 0]
    /\ cancelOk = [id \in AllIds |-> FALSE]
    /\ wa = WaIdle
    /\ waRow = NoRow
    /\ waRecords = <<>>
    /\ waLost = FALSE
    /\ waGateway = <<>>
    /\ waBatches = <<>>
    /\ waOutcomes = <<>>

InitDelete ==
    /\ today = 0
    /\ elapsed = 0
    /\ broadcastRows = <<>>
    /\ recipientRows = {}
    /\ running = {}
    /\ deleted = {}
    /\ cleanup = CleanupIdle

Init ==
    /\ InitServices
    /\ vr = VrIdle
    /\ preview = NoPreview
    /\ InitDelete
    /\ pg = PgIdle
    /\ InitRate
    /\ request = NoRequests

Next ==
    \/ \E message \in Contents, recipients \in RecipientLists :
          CreateTelegramBroadcast(message, recipients) /\ UNCHANGED <<waVars, fnVars>>
    \/ \E p \in Procs, id \in CampaignIds : SendLoad(p, id) /\ UNCHANGED <<waVars, fnVars>>
    \/ \E p \in Procs, saved \in BOOLEAN : SendSetSending(p, saved) /\ UNCHANGED <<waVars, fnVars>>
    \/ \E p \in Procs, delivered \in BOOLEAN : SendLoop(p, delivered) /\ UNCHANGED <<waVars, fnVars>>
    \/ \E p \in Procs, saved \in BOOLEAN : SendComplete(p, saved) /\ UNCHANGED <<waVars, fnVars>>
    \/ \E p \in Procs, id \in CampaignIds : CancelLoad(p, id) /\ UNCHANGED <<waVars, fnVars>>
    \/ \E p \in Procs, saved \in BOOLEAN : CancelSave(p, saved) /\ UNCHANGED <<waVars, fnVars>>
    \/ \E p \in Procs, id \in CampaignIds, message \in Contents,
          recipients \in {NilSlice} \cup {Slice(l) : l \in RecipientLists} :
          UpdateLoad(p, id, "", message, recipients) /\ UNCHANGED <<waVars, fnVars>>
    \/ \E p \in Procs, saved \in BOOLEAN : UpdateSave(p, saved) /\ UNCHANGED <<waVars, fnVars>>
    \/ \E p \in Procs, id \in CampaignIds, recipients \in RecipientLists :
          ImportLoad(p, id, recipients) /\ UNCHANGED <<waVars, fnVars>>
    \/ \E p \in Procs, saved \in BOOLEAN : ImportSave(p, saved) /\ UNCHANGED <<waVars, fnVars>>

Spec == Init /\ [][Next]_vars

\* Create, Dispatch and Cancel, with every Dispatch that has entered its loop
\* running on: the loop is a synchronous range over a finite slice, the
\* gateway client answers within its 30 s timeout, and the Save returns
NextLive ==
    \/ \E message \in Contents, recipients \in RecipientLists :
          CreateTelegramBroadcast(message, recipients) /\ UNCHANGED <<waVars, fnVars>>
    \/ \E p \in Procs, id \in CampaignIds : SendLoad(p, id) /\ UNCHANGED <<waVars, fnVars>>
    \/ \E p \in Procs, saved \in BOOLEAN : SendSetSending(p, saved) /\ UNCHANGED <<waVars, fnVars>>
    \/ \E p \in Procs, delivered \in BOOLEAN : SendLoop(p, delivered) /\ UNCHANGED <<waVars, fnVars>>
    \/ \E p \in Procs, saved \in BOOLEAN : SendComplete(p, saved) /\ UNCHANGED <<waVars, fnVars>>
    \/ \E p \in Procs, id \in CampaignIds : CancelLoad(p, id) /\ UNCHANGED <<waVars, fnVars>>
    \/ \E p \in Procs, saved \in BOOLEAN : CancelSave(p, saved) /\ UNCHANGED <<waVars, fnVars>>

DispatchRunsOn ==
    \A p \in Procs :
        /\ WF_vars(\E delivered \in BOOLEAN : SendLoop(p, delivered) /\ UNCHANGED <<waVars, fnVars>>)
        /\ WF_vars(\E saved \in BOOLEAN : SendComplete(p, saved) /\ UNCHANGED <<waVars, fnVars>>)

SpecLive == Init /\ [][NextLive]_vars /\ DispatchRunsOn

\* the methods that read and write a campaign's recipient list
NextRecipients ==
    \/ \E message \in Contents, recipients \in RecipientLists :
          CreateTelegramBroadcast(message, recipients) /\ UNCHANGED <<waVars, fnVars>>
    \/ \E p \in Procs, id \in CampaignIds, message \in Contents,
          recipients \in {NilSlice} \cup {Slice(l) : l \in RecipientLists} :
          UpdateLoad(p, id, "", message, recipients) /\ UNCHANGED <<waVars, fnVars>>
    \/ \E p \in Procs, saved \in BOOLEAN : UpdateSave(p, saved) /\ UNCHANGED <<waVars, fnVars>>
    \/ \E p \in Procs, id \in CampaignIds, recipients \in RecipientLists :
          ImportLoad(p, id, recipients) /\ UNCHANGED <<waVars, fnVars>>
    \/ \E p \in Procs, saved \in BOOLEAN : ImportSave(p, saved) /\ UNCHANGED <<waVars, fnVars>>
    \/ \E id \in CampaignIds :
          ExportTelegramBroadcastRecipients(id) /\ UNCHANGED <<waVars, fnVars>>

SpecRecipients == Init /\ [][NextRecipients]_vars

\* Update with every combination of given and omitted fields, one request
\* at a time
Names == {"", "renamed"}
otherThanUpdate == <<waVars, vr, preview, delVars, pg, rl>>
NextUpdate ==
    \/ \E message \in Contents, recipients \in RecipientLists :
          CreateTelegramBroadcast(message, recipients) /\ UNCHANGED <<waVars, fnVars>>
    \/ \E p \in Procs, id \in CampaignIds, name \in Names, message \in Contents,
          recipients \in {NilSlice} \cup {Slice(l) : l \in RecipientLists} :
          /\ \A q \in Procs : calls[q].pc = "idle"
          /\ UpdateLoad(p, id, name, message, recipients)
          /\ request' = [request EXCEPT ![p] = Request(name, message, recipients)]
          /\ UNCHANGED otherThanUpdate
    \/ \E p \in Procs, saved \in BOOLEAN : UpdateSave(p, saved) /\ UNCHANGED <<waVars, fnVars>>

SpecUpdate == Init /\ [][NextUpdate]_vars

\* the methods that take the id of a campaign, called with ids of campaigns
\* that exist and of campaigns that do not
NextById ==
    \/ \E message \in Contents, recipients \in RecipientLists :
          CreateTelegramBroadcast(message, recipients) /\ UNCHANGED <<waVars, fnVars>>
    \/ \E p \in Procs, id \in AllIds : SendLoad(p, id) /\ UNCHANGED <<waVars, fnVars>>
    \/ \E p \in Procs, saved \in BOOLEAN : SendSetSending(p, saved) /\ UNCHANGED <<waVars, fnVars>>
    \/ \E p \in Procs, delivered \in BOOLEAN : SendLoop(p, delivered) /\ UNCHANGED <<waVars, fnVars>>
    \/ \E p \in Procs, saved \in BOOLEAN : SendComplete(p, saved) /\ UNCHANGED <<waVars, fnVars>>
    \/ \E p \in Procs, id \in AllIds : CancelLoad(p, id) /\ UNCHANGED <<waVars, fnVars>>
    \/ \E p \in Procs, saved \in BOOLEAN : CancelSave(p, saved) /\ UNCHANGED <<waVars, fnVars>>
    \/ \E p \in Procs, id \in AllIds : DuplicateLoad(p, id) /\ UNCHANGED <<waVars, fnVars>>
    \/ \E p \in Procs, created \in BOOLEAN : DuplicateCreate(p, created) /\ UNCHANGED <<waVars, fnVars>>
    \/ \E id \in AllIds :
          ExportTelegramBroadcastRecipients(id) /\ UNCHANGED <<waVars, fnVars>>
    \/ \E p \in Procs, id \in AllIds, recipients \in RecipientLists :
          ImportLoad(p, id, recipients) /\ UNCHANGED <<waVars, fnVars>>
    \/ \E p \in Procs, saved \in BOOLEAN : ImportSave(p, saved) /\ UNCHANGED <<waVars, fnVars>>

SpecById == Init /\ [][NextById]_vars

\* the lifecycle of a campaign and of its copies
NextDuplicate ==
    \/ \E message \in Contents, recipients \in RecipientLists :
          CreateTelegramBroadcast(message, recipients) /\ UNCHANGED <<waVars, fnVars>>
    \/ \E p \in Procs, id \in AllIds : SendLoad(p, id) /\ UNCHANGED <<waVars, fnVars>>
    \/ \E p \in Procs, saved \in BOOLEAN : SendSetSending(p, saved) /\ UNCHANGED <<waVars, fnVars>>
    \/ \E p \in Procs, delivered \in BOOLEAN : SendLoop(p, delivered) /\ UNCHANGED <<waVars, fnVars>>
    \/ \E p \in Procs, saved \in BOOLEAN : SendComplete(p, saved) /\ UNCHANGED <<waVars, fnVars>>
    \/ \E p \in Procs, id \in AllIds : CancelLoad(p, id) /\ UNCHANGED <<waVars, fnVars>>
    \/ \E p \in Procs, saved \in BOOLEAN : CancelSave(p, saved) /\ UNCHANGED <<waVars, fnVars>>
    \/ \E p \in Procs, id \in AllIds : DuplicateLoad(p, id) /\ UNCHANGED <<waVars, fnVars>>
    \/ \E p \in Procs, created \in BOOLEAN :
          DuplicateCreate(p, created) /\ UNCHANGED <<waVars, fnVars>>

SpecDuplicate == Init /\ [][NextDuplicate]_vars

\* one BroadcastMessage call
NextWA ==
    \/ \E n \in 0..MaxWaLen, created \in BOOLEAN :
          BroadcastMessage(n, created) /\ UNCHANGED <<tgVars, fnVars>>
    \/ WaNextBatch /\ UNCHANGED <<tgVars, fnVars>>
    \/ \E resolved \in BOOLEAN, delivered \in BOOLEAN, stored \in BOOLEAN :
          WaProcessRecipient(resolved, delivered, stored) /\ UNCHANGED <<tgVars, fnVars>>
    \/ WaBatchDone /\ UNCHANGED <<tgVars, fnVars>>
    \/ \E saved \in BOOLEAN : WaFinish(saved) /\ UNCHANGED <<tgVars, fnVars>>

SpecWA == Init /\ [][NextWA]_vars

\* one BroadcastMessage call over a long recipient list, with every
\* collaborator answering without error
NextBatch ==
    \/ \E n \in 0..MaxBatchLen : BroadcastMessage(n, TRUE) /\ UNCHANGED <<tgVars, fnVars>>
    \/ WaNextBatch /\ UNCHANGED <<tgVars, fnVars>>
    \/ WaProcessRecipient(TRUE, TRUE, TRUE) /\ UNCHANGED <<tgVars, fnVars>>
    \/ WaBatchDone /\ UNCHANGED <<tgVars, fnVars>>
    \/ WaFinish(TRUE) /\ UNCHANGED <<tgVars, fnVars>>

SpecBatch == Init /\ [][NextBatch]_vars

\* ValidateRecipients applied to every bounded argument
InitValidate ==
    /\ InitServices
    /\ \E recipients \in ValidateInputs : vr = VrCall(recipients)
    /\ preview = NoPreview
    /\ InitDelete
    /\ pg = PgIdle
    /\ InitRate
    /\ request = NoRequests
NextValidate == ValidateRecipients /\ UNCHANGED <<tgVars, waVars, preview, delVars, pg, rl, request>>
SpecValidate == InitValidate /\ [][NextValidate]_vars

\* previews asked for while campaigns are created
NextPreview ==
    \/ \E message \in Contents, recipients \in RecipientLists :
          CreateTelegramBroadcast(message, recipients) /\ UNCHANGED <<waVars, fnVars>>
    \/ \E message \in PreviewMessages, recipients \in RecipientLists :
          PreviewTelegramBroadcast(message, recipients)

SpecPreview == Init /\ [][NextPreview]_vars

\* Paginate applied to item counts >= 0, limits >= 1 and pages below, within
\* and above the range
InitPaginate ==
    /\ InitServices
    /\ vr = VrIdle
    /\ preview = NoPreview
    /\ InitDelete
    /\ \E totalItems \in 0..MaxItems, page \in (-1)..MaxPage, limit \in 1..MaxLimit :
          pg = PgCall(totalItems, page, limit)
    /\ InitRate
    /\ request = NoRequests
NextPaginate == Paginate /\ UNCHANGED <<tgVars, waVars, vr, preview, delVars, rl, request>>
SpecPaginate == InitPaginate /\ [][NextPaginate]_vars

\* requests of one client passing the RateLimiter, from two concurrent callers
otherThanRate == <<tgVars, waVars, vr, preview, delVars, pg, request>>
NextRate ==
    \/ \E p \in Procs : RlBegin(p) /\ UNCHANGED otherThanRate
    \/ \E p \in Procs, ok \in BOOLEAN : RlZCount(p, ok) /\ UNCHANGED otherThanRate
    \/ \E p \in Procs, ok \in BOOLEAN : RlZAdd(p, ok) /\ UNCHANGED otherThanRate
    \/ \E p \in Procs, ok \in BOOLEAN : RlZRemRangeByScore(p, ok) /\ UNCHANGED otherThanRate
    \/ \E p \in Procs, ok \in BOOLEAN : RlExpire(p, ok) /\ UNCHANGED otherThanRate
    \/ RlTick /\ UNCHANGED otherThanRate
SpecRate == Init /\ [][NextRate]_vars

\* the operations that create and delete broadcasts and their records
otherThanDelete == <<tgVars, waVars, vr, preview, pg, rl, request>>

NextDelete ==
    \/ BroadcastCreated /\ UNCHANGED otherThanDelete
    \/ \E id \in BroadcastIds : RecipientCreated(id) /\ UNCHANGED otherThanDelete
    \/ \E id \in BroadcastIds : BroadcastReturned(id) /\ UNCHANGED otherThanDelete
    \/ \E days \in {1, Retention} : Elapse(days) /\ UNCHANGED otherThanDelete
    \/ \E id \in BroadcastIds, ok \in BOOLEAN :
          DeleteBroadcast(id, ok) /\ UNCHANGED otherThanDelete
    \/ \E ok \in BOOLEAN : CleanupRecipients(ok) /\ UNCHANGED otherThanDelete
    \/ \E ok \in BOOLEAN : CleanupBroadcasts(ok) /\ UNCHANGED otherThanDelete

SpecDelete == Init /\ [][NextDelete]_vars

TypeOK ==
    /\ DOMAIN db \subseteq AllIds
    /\ clock \in 0..MaxClock
    /\ \A p \in Procs : calls[p].pc \in {"idle", "setSending", "loop", "cancelSave",
                                         "updateSave", "importSave", "duplicateCreate"}

(* ---- steps of one call, as seen in a pair of states --------------------- *)
\* caller p's SendTelegramBroadcast does its first Save, or fails to
DispatchProceeds(p) == calls[p].pc = "setSending" /\ calls'[p] # calls[p]

\* caller p's CancelTelegramBroadcast does its Save
CancelWrites(p) == calls[p].pc = "cancelSave" /\ calls'[p].pc = "idle"

\* a CancelTelegramBroadcast returns from its load: not found, or refused
CancelReturnsEarly == calls' = calls /\ clock' # clock /\ ret'.op = "cancel"

\* a caller's CancelTelegramBroadcast passes the status check
CancelAccepted(p) == calls[p].pc = "idle" /\ calls'[p].pc = "cancelSave"

Cancellable == {"draft", "pending"}

(* ---- the claims --------------------------------------------------------- *)

\* C1: of two Dispatch calls on one campaign only one makes the transition to
\* "sending" and runs the send loop; there are never two send loops of the
\* same campaign.
C1_OneDispatchRuns ==
    \A p, q \in Procs :
        (p # q /\ calls[p].pc = "loop" /\ calls[q].pc = "loop")
            => calls[p].id # calls[q].id

\* C2: a campaign that is completed (Telegram) or sent (WhatsApp) has
\* success counter + failure counter = number of recipients.
C2_CompletedCountsEveryRecipient ==
    /\ \A id \in DOMAIN db :
          db[id].Status = "completed"
              => db[id].SuccessCount + db[id].FailureCount = Len(db[id].Recipients)
    /\ waRow.Status = "sent"
          => waRow.TotalSent + waRow.TotalFailed = Len(wa.recipients)

\* C3: every change of a campaign's status is pending/draft -> sending,
\* sending -> completed or pending/draft -> cancelled.
LegalTransition(from, to) ==
    \/ from \in Cancellable /\ to \in {"sending", "cancelled"}
    \/ from = "sending" /\ to = "completed"

C3_StatusMonotonic ==
    [][\A id \in DOMAIN db :
          db'[id].Status # db[id].Status
              => LegalTransition(db[id].Status, db'[id].Status)]_vars

\* C4: a Dispatch that loaded a completed campaign returns an error (the
\* state conflict, short of a storage failure) and writes nothing.
C4_CompletedNotRedispatched ==
    [][\A p \in Procs :
          (DispatchProceeds(p) /\ calls[p].loaded = "completed")
              => /\ db' = db
                 /\ calls'[p].pc = "idle"
                 /\ ret'.op = "send" /\ ret'.id = calls[p].id
                 /\ ret'.result \in {"conflict", "dberr"}]_vars

\* C5: after a successful Cancel, a Dispatch that loads the cancelled campaign
\* returns an error at once (the state conflict, short of a storage failure):
\* the row stays as it is and the call never reaches the send loop.
C5_CancelledNeverDispatched ==
    [][\A p \in Procs :
          (DispatchProceeds(p) /\ cancelOk[calls[p].id]
                               /\ calls[p].loaded = "cancelled")
              => /\ db' = db
                 /\ calls'[p].pc # "loop"
                 /\ ret'.result \in {"conflict", "dberr"}]_vars

\* C6: Cancel goes on to write "cancelled" exactly when the status it finds
\* is draft or pending; when it finds sending, completed or cancelled it
\* returns a state conflict and the table is unchanged. (A Cancel that passed
\* the check fails only when the storage write itself fails.)
C6_CancelIffPending ==
    [][/\ \A p \in Procs :
            CancelAccepted(p) => db[calls'[p].id].Status \in Cancellable
       /\ \A p \in Procs :
            CancelWrites(p)
                => /\ ret'.op = "cancel" /\ ret'.result \in {"ok", "dberr"}
                   /\ ret'.status \in Cancellable
                   /\ ret'.result = "ok" => db'[calls[p].id].Status = "cancelled"
                   /\ ret'.result = "dberr" => db' = db
       /\ CancelReturnsEarly
            => /\ db' = db
               /\ ret'.result \in {"notfound", "conflict"}
               /\ ret'.result = "notfound" <=> ~Exists(ret'.id)
               /\ ret'.result = "conflict"
                     => /\ ret'.status = db[ret'.id].Status
                        /\ ret'.status \notin Cancellable]_vars

\* a Cancel has succeeded on a campaign and a later Cancel of it was refused
C6_Witness ==
    /\ ret.op = "cancel" /\ ret.result = "conflict" /\ ret.status = "cancelled"
    /\ ret.id \in DOMAIN db
    /\ cancelOk[ret.id]
    /\ db[ret.id].Status = "cancelled"

\* C7: of a Cancel and a Dispatch that both found the campaign pending only
\* one takes effect: there is no state in which the Cancel has returned
\* success and the Dispatch has passed a recipient to the gateway.
C7_CancelAndDispatchExclude ==
    \A q \in Procs :
        (calls[q].pc = "loop" /\ calls[q].loaded = "pending" /\ calls[q].i > 1)
            => ~cancelOk[calls[q].id]

\* C8: success counter + failure counter never exceeds the length of the
\* stored recipient list.
C8_CountsWithinRecipients ==
    \A id \in DOMAIN db :
        db[id].SuccessCount + db[id].FailureCount <= Len(db[id].Recipients)

\* C9: the recipient list of a campaign that is sending, completed or
\* cancelled is never changed.
C9_RecipientsFrozen ==
    [][\A id \in DOMAIN db :
          db[id].Status \in {"sending", "completed", "cancelled"}
              => db'[id].Recipients = db[id].Recipients]_vars

\* C10: when the write of a delivery record fails, the run aborts: the
\* campaign is never stored as sent and the call returns the storage error.
C10_LostRecordAbortsRun ==
    waLost => /\ waRow.Status # "sent"
              /\ wa.pc = "done" => wa.result = "dberr"

(* ---- the records of a WhatsApp run -------------------------------------- *)
\* the number of stored delivery records with the given status
RecordsWith(status) ==
    Cardinality({k \in 1..Len(waRecords) : waRecords[k].Status = status})

\* the answers for the recipients whose record was written
StoredOutcomes == SelectSeq(waOutcomes, LAMBDA o : o.stored)

\* the recipients of the answers in which the identity resolved
RECURSIVE ResolvedRecipients(_)
ResolvedRecipients(outcomes) ==
    IF outcomes = <<>> THEN <<>>
    ELSE IF Head(outcomes).resolved
         THEN <<Head(outcomes).recipient>> \o ResolvedRecipients(Tail(outcomes))
         ELSE ResolvedRecipients(Tail(outcomes))

\* C11: every delivery record a run has persisted is terminal (sent or
\* failed), whether the gateway succeeded or returned an error; no persisted
\* record of a finished batch has status pending.
C11_PersistedRecordsTerminal ==
    \A k \in 1..Len(waRecords) : waRecords[k].Status \in {"sent", "failed"}

\* a batch has finished and holds the record of a gateway error
C11_Witness ==
    /\ wa.pc = "batches"
    /\ wa.i > 0
    /\ \E k \in 1..Len(waRecords) :
          waRecords[k].Status = "failed" /\ waRecords[k].Error = SendError

\* C12: a recipient whose resolution or gateway send fails never stops the
\* run: the recipients are processed one after the other in list order, each
\* one that resolves is passed to the gateway exactly once whatever happened
\* to the earlier ones, a finished run has processed all of them, and every
\* failed recipient whose record is written is recorded as failed with the
\* text of its error.
C12_FailuresIsolated ==
    /\ Len(waOutcomes) <= Len(wa.recipients)
    /\ \A k \in 1..Len(waOutcomes) : waOutcomes[k].recipient = wa.recipients[k]
    /\ waGateway = ResolvedRecipients(waOutcomes)
    /\ (wa.pc = "done" /\ wa.broadcast.Status = "sent")
          => Len(waOutcomes) = Len(wa.recipients)
    /\ Len(waRecords) = Len(StoredOutcomes)
    /\ \A k \in 1..Len(waRecords) :
          LET o == StoredOutcomes[k]
          IN /\ waRecords[k].recipient = o.recipient
             /\ ~o.resolved
                  => waRecords[k].Status = "failed" /\ waRecords[k].Error = ResolveError
             /\ (o.resolved /\ ~o.delivered)
                  => waRecords[k].Status = "failed" /\ waRecords[k].Error = SendError

\* a finished run in which the first recipient failed to resolve, the second
\* failed at the gateway and the third was still passed to the gateway
C12_Witness ==
    /\ wa.pc = "done"
    /\ wa.result = "ok"
    /\ Len(waOutcomes) = 3
    /\ ~waOutcomes[1].resolved
    /\ waOutcomes[2].resolved /\ ~waOutcomes[2].delivered
    /\ waGateway = <<2, 3>>
    /\ Len(waRecords) = 3

\* C13: at every point of a run the success counter is the number of
\* delivery records with status sent and the failure counter the number with
\* status failed (stated for the runs in which every record was written).
C13_CountersMatchRecords ==
    ~waLost => /\ wa.broadcast.TotalSent = RecordsWith("sent")
               /\ wa.broadcast.TotalFailed = RecordsWith("failed")

\* the batches laid end to end
RECURSIVE Flatten(_)
Flatten(batches) ==
    IF batches = <<>> THEN <<>> ELSE Head(batches) \o Flatten(Tail(batches))

Invalid(recipients) == SelectSeq(recipients, LAMBDA r : r <= 0)

\* C17: ValidateRecipients returns the subsequence of the ids > 0 of its
\* argument, in order and with duplicates kept, and one error entry per id
\* <= 0; it always returns, and len(valid) + len(errors) = len(input).
C17_ValidatePartitions ==
    vr.pc = "returned"
        => /\ vr.validRecipients = SelectSeq(vr.recipients, LAMBDA r : r > 0)
           /\ Len(vr.errors) = Len(Invalid(vr.recipients))
           /\ \A k \in 1..Len(vr.errors) : vr.errors[k].id = Invalid(vr.recipients)[k]
           /\ Len(vr.validRecipients) + Len(vr.errors) = Len(vr.recipients)

\* a mixed list with a repeated valid id has been validated
C17_Witness ==
    /\ vr.pc = "returned"
    /\ vr.recipients = <<1, 0, 1>>
    /\ vr.validRecipients = <<1, 1>>
    /\ Len(vr.errors) = 1

(* ---- what the calls return ---------------------------------------------- *)
\* caller p's SendTelegramBroadcast does its last Save and returns
DispatchReturns(p) == calls[p].pc = "loop" /\ calls'[p].pc = "idle"

\* C14: a Dispatch whose run reaches completion returns success whatever the
\* recipients' outcomes were, all of them failing included; a Dispatch only
\* fails with the error of a storage call (the load or a Save), in which case
\* its last step wrote nothing.
C14_DispatchReturnsSuccess ==
    [][/\ ret'.op = "send" => ret'.result \in {"ok", "dberr", "notfound"}
       /\ \A p \in Procs :
             DispatchReturns(p)
                 => /\ ret'.op = "send"
                    /\ ret'.result \in {"ok", "dberr"}
                    /\ ret'.result = "dberr" => db' = db
                    /\ ret'.result = "ok"
                         => /\ db'[calls[p].id].Status = "completed"
                            /\ db'[calls[p].id].SuccessCount = calls[p].successCount]_vars

\* a Dispatch returned success although every recipient failed
C14_Witness ==
    /\ ret.op = "send"
    /\ ret.result = "ok"
    /\ ret.id \in DOMAIN db
    /\ db[ret.id].Status = "completed"
    /\ Len(db[ret.id].Recipients) > 0
    /\ db[ret.id].FailureCount = Len(db[ret.id].Recipients)

(* ---- DuplicateTelegramBroadcast ----------------------------------------- *)
\* caller p's DuplicateTelegramBroadcast inserts the copy and returns it
DuplicateCreates(p) ==
    /\ calls[p].pc = "duplicateCreate"
    /\ calls'[p].pc = "idle"
    /\ ret'.result = "ok"

\* the copy made from the original that caller p loaded, with the given status
CopyOf(p, status) ==
    LET new == ret'.id
        original == calls[p].broadcast
    IN /\ new \notin DOMAIN db
       /\ new \in DOMAIN db'
       /\ new # calls[p].id
       /\ db'[new].Status = status
       /\ db'[new].SuccessCount = 0
       /\ db'[new].FailureCount = 0
       /\ db'[new].Message = original.Message
       /\ db'[new].Recipients = original.Recipients
       /\ \A id \in DOMAIN db : db'[id] = db[id]

ImportReturns(p) == calls[p].pc = "importSave" /\ calls'[p].pc = "idle"

\* caller p imports the list that the Export which has just returned gave
\* for the same campaign, the stored list being that list still
ImportsExported(p) ==
    /\ ImportReturns(p)
    /\ ret'.result = "ok"
    /\ ret.op = "export"
    /\ ret.result = "ok"
    /\ ret.id = calls[p].id
    /\ calls[p].recipients = ret.recipients
    /\ db[calls[p].id].Recipients = ret.recipients

\* C18: exporting a campaign's recipients and importing the exported list
\* back into the same campaign leaves the stored recipient list as it was.
C18_ExportImportRoundTrip ==
    [][\A p \in Procs :
          ImportsExported(p)
              => db'[calls[p].id].Recipients = db[calls[p].id].Recipients]_vars

\* C19: Import replaces the stored recipient list with exactly the valid ids
\* of the list it was given, in order, and returns success even when the list
\* has invalid entries; the stored list then has no invalid id. It fails only
\* with the Save's error, and then nothing is written.
C19_ImportStoresValidSubset ==
    [][\A p \in Procs :
          ImportReturns(p)
              => LET id == calls[p].id
                     given == calls[p].recipients
                 IN /\ ret'.op = "import"
                    /\ ret'.result \in {"ok", "dberr"}
                    /\ ret'.result = "dberr" => db' = db
                    /\ ret'.result = "ok"
                         => /\ db'[id].Recipients = SelectSeq(given, LAMBDA r : r > 0)
                            /\ \A k \in 1..Len(db'[id].Recipients) :
                                  db'[id].Recipients[k] > 0]_vars

\* an Import of a list with an invalid id has returned success
C19_Witness ==
    /\ ret.op = "import"
    /\ ret.result = "ok"
    /\ \E k \in 1..Len(ret.recipients) : ret.recipients[k] <= 0
    /\ ret.id \in DOMAIN db
    /\ db[ret.id].Recipients = SelectSeq(ret.recipients, LAMBDA r : r > 0)

(* ---- validation --------------------------------------------------------- *)
\* Validate(campaign) of the specification fails on such a campaign
Empty(broadcast) == broadcast.Message = "" \/ broadcast.Recipients = <<>>

\* C20: a campaign with an empty message or an empty recipient list is
\* rejected before any state change: Create never stores one, and Dispatch
\* never moves one to sending or completed.
C20_EmptyCampaignRejected ==
    [][/\ \A id \in DOMAIN db' : id \notin DOMAIN db => ~Empty(db'[id])
       /\ \A id \in DOMAIN db :
             (Empty(db[id]) /\ db'[id].Status # db[id].Status)
                 => db'[id].Status \notin {"sending", "completed"}]_vars

(* ---- the recipient resolver of the Telegram run -------------------------- *)
\* caller p's send loop passes one recipient to telegramService.SendMessage
GatewayCalled(p) ==
    /\ calls[p].pc = "loop"
    /\ calls'[p].pc = "loop"
    /\ calls'[p].i = calls[p].i + 1

\* C21: the gateway send of a Telegram run is never invoked with a recipient
\* id that is zero or negative; such an id is refused before the send.
C21_GatewayOnlyPositiveIds ==
    [][\A p \in Procs :
          GatewayCalled(p) => calls[p].broadcast.Recipients[calls[p].i] > 0]_vars

(* ---- PreviewTelegramBroadcast ------------------------------------------- *)
\* C22: Preview changes no stored state and returns recipient_count =
\* len(recipients), message_length = len(message) (the bytes of the string)
\* and an estimated delivery time of the current time plus one second per
\* recipient.
C22_PreviewIsPure ==
    [][preview' # preview
          => /\ UNCHANGED <<db, nextId, calls, gateway, cancelOk, waVars>>
             /\ preview'.recipient_count = Len(preview'.recipients)
             /\ preview'.message_length
                   = Cardinality({k \in 1..Len(preview'.message) : preview'.message[k] = 1})
                     + 3 * Cardinality({k \in 1..Len(preview'.message) : preview'.message[k] = 3})
             /\ preview'.now = clock'
             /\ preview'.estimated_delivery = clock' + Len(preview'.recipients) * Second]_vars

\* a preview of a message with a multi-byte character for one recipient,
\* asked for when a campaign is stored
C22_Witness ==
    /\ preview.called
    /\ db # <<>>
    /\ Len(preview.recipients) = 1
    /\ preview.message = <<1, 3>>
    /\ preview.message_length = 4
    /\ preview.estimated_delivery = preview.now + 1

(* ---- deleting campaigns -------------------------------------------------- *)
\* C23: once DeleteBroadcast or CleanupOldBroadcasts has returned, no delivery
\* record remains whose broadcast has been deleted.
C23_DeleteCascadesToRecords ==
    cleanup.pc = "idle" => \A r \in recipientRows : r.BroadcastID \notin deleted

(* ---- termination of a Dispatch ------------------------------------------- *)
\* C24: a Dispatch that has moved a campaign to sending leaves its send loop
\* and returns, whatever the gateway answers; when its last Save met no
\* storage error the campaign is then completed with completed_at set.
C24_DispatchTerminates ==
    /\ \A p \in Procs : (calls[p].pc = "loop") ~> (calls[p].pc = "idle")
    /\ [][\A p \in Procs :
             (DispatchReturns(p) /\ ret'.result = "ok")
                 => /\ db'[calls[p].id].Status = "completed"
                    /\ db'[calls[p].id].CompletedAt = clock
                    /\ clock > 0]_vars

\* a Dispatch over a non-empty list has returned and the campaign is
\* completed with completed_at set
C24_Witness ==
    /\ ret.op = "send"
    /\ ret.result = "ok"
    /\ ret.id \in DOMAIN db
    /\ Len(db[ret.id].Recipients) > 0
    /\ db[ret.id].Status = "completed"
    /\ db[ret.id].CompletedAt > 0
    /\ \A p \in Procs : calls[p].pc = "idle"

(* ---- utils.Paginate ------------------------------------------------------ *)
\* ceil(totalItems / limit): the least n with n * limit >= totalItems
CeilDiv(totalItems, limit) ==
    CHOOSE n \in 0..totalItems : n * limit >= totalItems /\ (n = 0 \/ (n - 1) * limit < totalItems)

\* C25: for totalItems >= 0, limit >= 1 and any page, Paginate returns
\* total_pages >= 1 (1 when totalItems is 0 or at most limit) and a page
\* clamped into 1..total_pages, so the offset is never negative.
C25_PageClampedIntoRange ==
    pg.pc = "returned"
        => /\ pg.result.total_pages >= 1
           /\ pg.totalItems <= pg.limit => pg.result.total_pages = 1
           /\ pg.result.page \in 1..pg.result.total_pages
           /\ pg.page < 1 => pg.result.page = 1
           /\ pg.page > pg.result.total_pages => pg.result.page = pg.result.total_pages
           /\ pg.result.offset >= 0

\* C26: for totalItems >= 1, limit >= 1 and page within 1..ceil(totalItems /
\* limit), Paginate returns total_pages = ceil(totalItems / limit), offset =
\* (page - 1) * limit, has_next iff page < total_pages, has_prev iff page > 1,
\* and echoes page, limit and total_items.
C26_PaginateComputes ==
    (/\ pg.pc = "returned"
     /\ pg.totalItems >= 1
     /\ pg.page \in 1..CeilDiv(pg.totalItems, pg.limit))
        => /\ pg.result.total_pages = CeilDiv(pg.totalItems, pg.limit)
           /\ pg.result.offset = (pg.page - 1) * pg.limit
           /\ pg.result.has_next = (pg.page < pg.result.total_pages)
           /\ pg.result.has_prev = (pg.page > 1)
           /\ pg.result.page = pg.page
           /\ pg.result.limit = pg.limit
           /\ pg.result.total_items = pg.totalItems

\* a page in the middle of a collection whose last page is partly filled:
\* 12 items by 5 give three pages, and page 2 starts at offset 5
C26_Witness ==
    /\ pg.pc = "returned"
    /\ pg.totalItems >= 1
    /\ pg.totalItems % pg.limit # 0
    /\ pg.page > 1
    /\ pg.page < pg.result.total_pages
    /\ pg.result.has_next
    /\ pg.result.has_prev
    /\ pg.result.offset = pg.limit

(* ---- middleware.RateLimiter ---------------------------------------------- *)
\* the requests admitted with a time.Now() in the seconds from .. from + n - 1
RECURSIVE AdmittedIn(_, _)
AdmittedIn(from, n) ==
    IF n = 0 \/ from > MaxSeconds THEN 0
    ELSE rl.admitted[from] + AdmittedIn(from + 1, n - 1)

\* C27: for one key, IsAllowed admits at most rateLimit requests inside any
\* window of windowSize, also for requests within one second and from
\* concurrent callers.
C27_AtMostRateLimitPerWindow ==
    \A from \in 0..MaxSeconds : AdmittedIn(from, windowSize) <= rateLimit

(* ---- Update --------------------------------------------------------------- *)
\* caller p's UpdateTelegramBroadcast does its Save and returns
UpdateReturns(p) == calls[p].pc = "updateSave" /\ calls'[p].pc = "idle"

\* the columns that Dispatch and Cancel write
LifecycleOf(broadcast) ==
    <<broadcast.Status, broadcast.SuccessCount, broadcast.FailureCount,
      broadcast.SentAt, broadcast.CompletedAt>>

\* C28: Update never changes status, success_count, failure_count, sent_at or
\* completed_at, also when interleaved with a concurrent Dispatch or Cancel:
\* what those wrote is not overwritten by the copy the Update read.
C28_UpdateKeepsLifecycle ==
    [][\A p \in Procs :
          UpdateReturns(p) =>
              \A id \in DOMAIN db : LifecycleOf(db'[id]) = LifecycleOf(db[id])]_vars

ById == {"send", "cancel", "duplicate", "export", "import"}

\* a request arrives: every method reads the clock once, at its start
RequestArrives == clock' # clock

\* some caller's method has found its row and goes on with it
ProceedsOnRow ==
    \E p \in Procs :
        /\ calls[p].pc = "idle"
        /\ calls'[p].pc # "idle"
        /\ calls'[p].id \in DOMAIN db
        /\ db' = db

\* a method returns at once with the outcome for a campaign that exists
ReturnsForRow ==
    /\ calls' = calls
    /\ ret'.op \in ById
    /\ ret'.id \in DOMAIN db
    /\ ret'.result # "notfound"
    /\ db' = db

\* a method returns the error of its load and nothing else happens
ReturnsNotFound ==
    /\ calls' = calls
    /\ ret'.op \in ById
    /\ ret'.id \notin DOMAIN db
    /\ ret'.result = "notfound"
    /\ ret'.recipients = <<>>
    /\ db' = db
    /\ nextId' = nextId
    /\ gateway' = gateway

\* C30: Dispatch, Cancel, Duplicate, Export and Import called with an id for
\* which no campaign exists return an error and change nothing: no campaign
\* is created or modified and the gateway is not invoked; a method only goes
\* on, or returns without error, for an id that exists.
C30_UnknownIdChangesNothing ==
    [][RequestArrives =>
          \/ ret'.op = "create" /\ calls' = calls /\ ret' # ret
          \/ ProceedsOnRow
          \/ ReturnsForRow
          \/ ReturnsNotFound]_vars

\* a Dispatch of an id that does not exist, next to a campaign that does, has
\* returned the error; no message has been sent and the campaign is as created
C30_Witness ==
    /\ ret.op = "send"
    /\ ret.result = "notfound"
    /\ ret.id \notin DOMAIN db
    /\ DOMAIN db # {}
    /\ \A p \in Procs : gateway[p] = 0
    /\ \A id \in DOMAIN db : db[id].Status = "pending"

====
